---- MODULE Spec2Model ----
(***************************************************************************)
(* Model of the pacman pipeline:                                           *)
(*   pacman_brain.py              NeuronSpikeRaster.make, NeuronRate.make  *)
(*   utilities/data_structures.py TrialAveragedPopulationState             *)
(*                                                                         *)
(* Numbers.  Array values are exact extended rationals <<n, d>>:           *)
(*   d > 0   the rational n/d in lowest terms                              *)
(*   d = 0   <<1,0>> = +inf, <<-1,0>> = -inf, <<0,0>> = NaN                *)
(*   d < 0   <<0,-1>> = Python None (the placeholder of an object array)   *)
(* Times are integers in ticks of 1/TickRate second.                       *)
(***************************************************************************)
EXTENDS Integers, Sequences, FiniteSets, TLC

VARIABLES
  \* NeuronSpikeRaster.make (one key)
  ephys_alignment, neuron_spike_indices, spike_bins, neuron_spike_raster, raster_pc,
  \* NeuronRate.make (one key)
  fs_beh, fs_ephys, t_beh, spike_raster, filter_matches, rate_bins, filter_lookups,
  neuron_rate, rate_pc,
  \* a direct call of TrialAveragedPopulationState._rebin
  rebin_raster, rebin_t_old, rebin_t_new, rebin_out, rebin_pc,
  \* a TrialAveragedPopulationState instance
  table,              \* what the constructor fetches (never changed)
  data_attributes,    \* self.data_attributes, resampled in place
  resample_log,       \* per record and attribute: "rebin", "interp" or "none"
  heap,               \* the numpy buffers: heap[buffer][attribute]
  raw_data_set,       \* self._raw_data_set: coordinate and buffer of each variable
  data_set,           \* self.data_set
  pop_pc,             \* "new", "ready" or "failed"
  last_call,          \* the latest call, its arguments and its exception
  before,             \* the working data set's content when that call began
  calls               \* number of public calls made

rasterVars == <<ephys_alignment, neuron_spike_indices, spike_bins, neuron_spike_raster, raster_pc>>
rateVars == <<fs_beh, fs_ephys, t_beh, spike_raster, filter_matches, rate_bins,
              filter_lookups, neuron_rate, rate_pc>>
rebinVars == <<rebin_raster, rebin_t_old, rebin_t_new, rebin_out, rebin_pc>>
popVars == <<table, data_attributes, resample_log, heap, raw_data_set, data_set, pop_pc,
             last_call, before, calls>>
vars == <<rasterVars, rateVars, rebinVars, popVars>>

(***************************************************************************)
(* Bounds of the model.                                                    *)
(***************************************************************************)
MaxIndex == 4      \* ephys sample indices are 0..MaxIndex
MaxAlign == 3      \* longest ephys alignment
MaxSpikes == 3     \* most spike indices of a neuron
MaxBeh == 3        \* longest behavioral time vector
MaxRaster == 5     \* longest stored raster the rate estimator reads

(***************************************************************************)
(* numpy / Python helpers                                                  *)
(***************************************************************************)
Range(s) == {s[i] : i \in DOMAIN s}

Min2(a, b) == IF a <= b THEN a ELSE b

\* the increasing sequence of the elements of a finite set of integers
RECURSIVE SortedSeq(_)
SortedSeq(S) ==
  IF S = {} THEN <<>>
  ELSE LET m == CHOOSE x \in S : \A y \in S : x <= y
       IN <<m>> \o SortedSeq(S \ {m})

\* np.digitize(x, bins), right=False, bins increasing: the i with
\* bins[i-1] <= x < bins[i], which is the number of bins <= x.
DigitizeRight(x, bins) == Cardinality({i \in DOMAIN bins : bins[i] < x})
Digitize(x, bins) == Cardinality({i \in DOMAIN bins : bins[i] <= x})

\* a[i] for a Python index i (negative indices count from the end); 1-based result
PyIndex(i, len) == IF i < 0 THEN i + len + 1 ELSE i + 1

\* x = np.zeros(len, dtype=bool); x[bins] = 1
SetBins(len, bins) ==
  [i \in 1..len |-> \E k \in DOMAIN bins : PyIndex(bins[k], len) = i]

\* bins[(bins >= 0) & (bins < len)]
TrialBoundsNoLower(b, len) == b < len
TrialBounds(b, len) == b >= 0 /\ b < len

RECURSIVE SelectBins(_, _)
SelectBins(bins, len) ==
  IF bins = <<>> THEN <<>>
  ELSE (IF TrialBounds(Head(bins), len) THEN <<Head(bins)>> ELSE <<>>)
       \o SelectBins(Tail(bins), len)

\* Python 3 round(p/q), q > 0: to the nearest integer, halves to the even one
PyRound(p, q) ==
  LET f == p \div q
      r == p - f * q
  IN IF 2 * r < q THEN f
     ELSE IF 2 * r > q THEN f + 1
     ELSE IF f % 2 = 0 THEN f ELSE f + 1

(***************************************************************************)
(* NeuronSpikeRaster.make.  Edges are kept doubled (2*edge) so that the    *)
(* half-sample offset stays an integer.                                    *)
(***************************************************************************)
\* 2 * (np.append(a, a[-1]+1+np.arange(2)).astype(float) - 0.5)
SpikeBinEdges2(a) ==
  [i \in 1..(Len(a) + 2) |->
     IF i <= Len(a) THEN 2 * a[i] - 1
     ELSE 2 * (a[Len(a)] + 1 + (i - Len(a) - 1)) - 1]

\* np.digitize(neuron_spike_indices, spike_bin_edges) - 1
RasterSpikeBins(spikes, a) ==
  [k \in DOMAIN spikes |-> Digitize(2 * spikes[k], SpikeBinEdges2(a)) - 1]

Alignments ==
  {SortedSeq(S) : S \in {T \in SUBSET (0..MaxIndex) : Cardinality(T) \in 1..MaxAlign}}

SpikeTrains ==
  {SortedSeq(S) : S \in {T \in SUBSET (0..(MaxIndex + 1)) : Cardinality(T) <= MaxSpikes}}

RasterInit ==
  /\ ephys_alignment \in Alignments
  /\ neuron_spike_indices \in SpikeTrains
  /\ spike_bins = <<>>
  /\ neuron_spike_raster = <<>>
  /\ raster_pc = "key"

RasterIdle ==
  /\ ephys_alignment = <<0>>
  /\ neuron_spike_indices = <<>>
  /\ spike_bins = <<>>
  /\ neuron_spike_raster = <<>>
  /\ raster_pc = "idle"

NeuronSpikeRasterMake ==
  /\ raster_pc = "key"
  /\ spike_bins' = RasterSpikeBins(neuron_spike_indices, ephys_alignment)
  /\ neuron_spike_raster' =
       SetBins(Len(ephys_alignment), SelectBins(spike_bins', Len(ephys_alignment)))
  /\ raster_pc' = "inserted"
  /\ UNCHANGED <<ephys_alignment, neuron_spike_indices>>

(***************************************************************************)
(* NeuronRate.make.  t_beh holds the behavioral sample times in units of   *)
(* 1/fs_beh.  With M = round(fs_ephys * ptp(t_beh)) and S = max(M, 1),     *)
(* every time is kept as an integer multiple of 1/(2 * fs_beh * S).        *)
(***************************************************************************)
FilterParts == <<"Boxcar", "Gaussian">>

PtpBeh(t) == t[Len(t)] - t[1]

\* round(fs_ephys * np.ptp(t_beh))
EphysSteps(t, fe, fb) == PyRound(fe * PtpBeh(t), fb)

TimeScale(t, fe, fb) == IF EphysSteps(t, fe, fb) = 0 THEN 1 ELSE EphysSteps(t, fe, fb)

\* np.linspace(t_beh[0], t_beh[-1], 1 + M), scaled
TEphys(t, fe, fb) ==
  [k \in 1..(1 + EphysSteps(t, fe, fb)) |->
     2 * t[1] * TimeScale(t, fe, fb) + 2 * (k - 1) * PtpBeh(t)]

\* np.append(t_beh, t_beh[-1]+(1+np.arange(2))/fs_beh) - 1/(2*fs_beh), scaled
TimeBinEdges(t, fe, fb) ==
  [j \in 1..(Len(t) + 2) |->
     (2 * (IF j <= Len(t) THEN t[j] ELSE t[Len(t)] + (j - Len(t))) - 1)
       * TimeScale(t, fe, fb)]

\* t_ephys[spike_raster]: the times of the true samples, in order
RECURSIVE MaskSelect(_, _)
MaskSelect(t, mask) ==
  IF t = <<>> THEN <<>>
  ELSE (IF Head(mask) THEN <<Head(t)>> ELSE <<>>) \o MaskSelect(Tail(t), Tail(mask))

\* np.digitize(t_ephys[spike_raster], time_bin_edges) - 1
RateSpikeBins(raster, t, fe, fb) ==
  LET times == MaskSelect(TEphys(t, fe, fb), raster)
  IN [k \in DOMAIN times |-> Digitize(times[k], TimeBinEdges(t, fe, fb)) - 1]

\* any(spike_raster)
AnySpike(raster) == \E i \in DOMAIN raster : raster[i]

\* next(part for part in filter_parts if part & filter_key)
FirstMatch(matches) ==
  FilterParts[CHOOSE i \in DOMAIN FilterParts :
                /\ FilterParts[i] \in matches
                /\ \A j \in 1..(i - 1) : FilterParts[j] \notin matches]

\* np.zeros(len(t_beh))
ZeroRateOfRaster(t, raster) == [i \in 1..Len(raster) |-> 0]
ZeroRate(t, raster) == [i \in 1..Len(t) |-> 0]

BehTimes == {[i \in 1..n |-> i - 1] : n \in 1..MaxBeh}
SampleRates == {1, 2}
EphysRates == {2, 3, 4}

RateInit ==
  /\ fs_beh \in SampleRates
  /\ fs_ephys \in EphysRates
  /\ t_beh \in BehTimes
  /\ spike_raster \in UNION {[1..n -> BOOLEAN] : n \in 1..MaxRaster}
  /\ filter_matches \in SUBSET Range(FilterParts)
  /\ rate_bins = <<>>
  /\ filter_lookups = 0
  /\ neuron_rate = [stored |-> FALSE, values |-> <<>>, filter |-> "none", signal |-> <<>>, gain |-> 0]
  /\ rate_pc = "key"

RateIdle ==
  /\ fs_beh = 1
  /\ fs_ephys = 1
  /\ t_beh = <<0>>
  /\ spike_raster = <<>>
  /\ filter_matches = {}
  /\ rate_bins = <<>>
  /\ filter_lookups = 0
  /\ neuron_rate = [stored |-> FALSE, values |-> <<>>, filter |-> "none", signal |-> <<>>, gain |-> 0]
  /\ rate_pc = "idle"

\* the else branch: no spikes, rate = np.zeros(len(t_beh))
NeuronRateMakeZero ==
  /\ rate_pc = "key"
  /\ ~AnySpike(spike_raster)
  /\ neuron_rate' = [stored |-> TRUE, values |-> ZeroRate(t_beh, spike_raster),
                     filter |-> "none", signal |-> <<>>, gain |-> 0]
  /\ rate_pc' = "inserted"
  /\ UNCHANGED <<fs_beh, fs_ephys, t_beh, spike_raster, filter_matches, rate_bins,
                 filter_lookups>>

\* t_ephys[spike_raster] with a mask of another length: IndexError, nothing inserted
NeuronRateMakeIndexError ==
  /\ rate_pc = "key"
  /\ AnySpike(spike_raster)
  /\ Len(spike_raster) # 1 + EphysSteps(t_beh, fs_ephys, fs_beh)
  /\ rate_pc' = "IndexError"
  /\ UNCHANGED <<fs_beh, fs_ephys, t_beh, spike_raster, filter_matches, rate_bins,
                 filter_lookups, neuron_rate>>

\* no part table holds the filter key: next() raises StopIteration, nothing inserted
NeuronRateMakeNoFilter ==
  /\ rate_pc = "key"
  /\ AnySpike(spike_raster)
  /\ Len(spike_raster) = 1 + EphysSteps(t_beh, fs_ephys, fs_beh)
  /\ filter_matches = {}
  /\ rate_bins' = RateSpikeBins(spike_raster, t_beh, fs_ephys, fs_beh)
  /\ filter_lookups' = filter_lookups + 1
  /\ rate_pc' = "StopIteration"
  /\ UNCHANGED <<fs_beh, fs_ephys, t_beh, spike_raster, filter_matches, neuron_rate>>

\* the filtered branch.  The filter implementations belong to another
\* package: the rate keeps the part applied, its input and the gain fs_beh.
NeuronRateMakeFiltered ==
  /\ rate_pc = "key"
  /\ AnySpike(spike_raster)
  /\ Len(spike_raster) = 1 + EphysSteps(t_beh, fs_ephys, fs_beh)
  /\ filter_matches # {}
  /\ rate_bins' = RateSpikeBins(spike_raster, t_beh, fs_ephys, fs_beh)
  /\ filter_lookups' = filter_lookups + 1
  /\ neuron_rate' = [stored |-> TRUE, values |-> <<>>,
                     filter |-> FirstMatch(filter_matches),
                     signal |-> SetBins(Len(t_beh), SelectBins(rate_bins', Len(t_beh))),
                     gain |-> fs_beh]
  /\ rate_pc' = "inserted"
  /\ UNCHANGED <<fs_beh, fs_ephys, t_beh, spike_raster, filter_matches>>

NeuronRateMake ==
  \/ NeuronRateMakeZero
  \/ NeuronRateMakeIndexError
  \/ NeuronRateMakeNoFilter
  \/ NeuronRateMakeFiltered

(***************************************************************************)
(* Extended rational arithmetic (the float64 values of the arrays, exact). *)
(***************************************************************************)
None == <<0, -1>>
NaN == <<0, 0>>
PosInf == <<1, 0>>
NegInf == <<-1, 0>>
Zero == <<0, 1>>
One == <<1, 1>>

Abs(n) == IF n < 0 THEN -n ELSE n
Sign(n) == IF n < 0 THEN -1 ELSE IF n > 0 THEN 1 ELSE 0

RECURSIVE GCD(_, _)
GCD(a, b) == IF b = 0 THEN a ELSE GCD(b, a % b)

\* n/d in lowest terms; n/0 is an infinity or NaN
Rat(n, d) ==
  IF d = 0 THEN <<Sign(n), 0>>
  ELSE LET g == GCD(Abs(n), Abs(d))
       IN <<Sign(d) * (n \div g), Abs(d) \div g>>

Int2Val(n) == <<n, 1>>
IsNone(v) == v[2] < 0
IsFinite(v) == v[2] > 0

Neg(v) == <<-v[1], v[2]>>

AddV(a, b) ==
  IF a = NaN \/ b = NaN THEN NaN
  ELSE IF a[2] = 0 /\ b[2] = 0 THEN (IF a = b THEN a ELSE NaN)
  ELSE IF a[2] = 0 THEN a
  ELSE IF b[2] = 0 THEN b
  ELSE Rat(a[1] * b[2] + b[1] * a[2], a[2] * b[2])

SubV(a, b) == AddV(a, Neg(b))

MulV(a, b) ==
  IF a = NaN \/ b = NaN THEN NaN
  ELSE IF a[2] = 0 \/ b[2] = 0 THEN <<Sign(a[1]) * Sign(b[1]), 0>>
  ELSE Rat(a[1] * b[1], a[2] * b[2])

\* IEEE division: x/0 = +-inf, 0/0 = inf/inf = NaN, x/inf = 0
DivV(a, b) ==
  IF a = NaN \/ b = NaN THEN NaN
  ELSE IF a[2] = 0 THEN (IF b[2] = 0 THEN NaN
                         ELSE <<a[1] * (IF b[1] < 0 THEN -1 ELSE 1), 0>>)
  ELSE IF b[2] = 0 THEN Zero
  ELSE Rat(a[1] * b[2], a[2] * b[1])

\* a < b, neither NaN
LessV(a, b) ==
  IF a[2] = 0 \/ b[2] = 0
  THEN a # b /\ (a = NegInf \/ b = PosInf)
  ELSE a[1] * b[2] < b[1] * a[2]

RECURSIVE SumV(_)
SumV(row) == IF row = <<>> THEN Zero ELSE AddV(Head(row), SumV(Tail(row)))

\* row.mean(): the sum over the count; NaN for an empty row
MeanV(row) == DivV(SumV(row), Int2Val(Len(row)))

MaxV(row) ==
  IF \E i \in DOMAIN row : row[i] = NaN THEN NaN
  ELSE row[CHOOSE i \in DOMAIN row : \A j \in DOMAIN row : ~LessV(row[i], row[j])]

MinV(row) ==
  IF \E i \in DOMAIN row : row[i] = NaN THEN NaN
  ELSE row[CHOOSE i \in DOMAIN row : \A j \in DOMAIN row : ~LessV(row[j], row[i])]

\* row.ptp(): max - min, of a row that is not empty
PtpV(row) == SubV(MaxV(row), MinV(row))

RECURSIVE Concat(_)
Concat(seqs) == IF seqs = <<>> THEN <<>> ELSE Head(seqs) \o Concat(Tail(seqs))

(***************************************************************************)
(* TrialAveragedPopulationState: construction                              *)
(***************************************************************************)
\* ticks per second: the least rate every sample rate divides
TickRate ==
  CHOOSE r \in 1..(Cardinality(SampleRates) * Cardinality(SampleRates)) :
    /\ \A f \in SampleRates : r % f = 0
    /\ \A q \in 1..(r - 1) : \E f \in SampleRates : q % f # 0

\* pacman_acquisition.ConditionParams.target_force_profile(condition_id, fs)[0]:
\* the time vector of a condition lasting dur seconds, sampled at fs
TargetForceProfile(dur, fs) == [j \in 1..(dur * fs + 1) |-> (j - 1) * (TickRate \div fs)]

CondDur(tbl, cid) ==
  LET i == CHOOSE k \in DOMAIN tbl.condition_attributes :
             tbl.condition_attributes[k].condition_id = cid
  IN tbl.condition_attributes[i].duration

\* attr['condition_time'] of _fetch_condition_attributes
ConditionTime(tbl, cid) == TargetForceProfile(CondDur(tbl, cid), tbl.sample_rate)

\* all(x in [0,1] for x in attr[name].astype(float))
IsBoolean(arr) == \A i \in DOMAIN arr.data : arr.data[i] \in {Zero, One}

\* t_old[raster]: a boolean mask of the same length selects; a float array
\* is no index (IndexError)
IndexTimes(raster, t_old) ==
  IF raster.dtype # "bool" \/ Len(raster.data) # Len(t_old)
  THEN [err |-> "IndexError", times |-> <<>>]
  ELSE [err |-> "",
        times |-> MaskSelect(t_old, [i \in DOMAIN raster.data |-> raster.data[i] = One])]

\* the finite entries of t_bins, doubled: t_new[i] + t_new[i+1]
TBins2(t_new) == [i \in 1..(Len(t_new) - 1) |-> t_new[i] + t_new[i + 1]]

\* np.digitize(x, t_bins) with t_bins = [-inf, midpoints..., +inf]: the
\* -inf edge is always <= x and the +inf edge never is
RebinDigitize(x, t_new) == 1 + Digitize(2 * x, TBins2(t_new))

\* np.array([True if i in new_spike_indices else False for i in range(len(t_new))])
Rebin(raster, t_old, t_new) ==
  LET sel == IndexTimes(raster, t_old)
      new_spike_indices == {RebinDigitize(sel.times[k], t_new) : k \in DOMAIN sel.times}
  IN IF sel.err # "" THEN [err |-> sel.err, arr |-> raster]
     ELSE [err |-> "",
           arr |-> [dtype |-> "bool",
                    data |-> [j \in 1..Len(t_new) |->
                                IF (j - 1) \in new_spike_indices THEN One ELSE Zero]]]

\* np.interp(x, xp, fp) at one point, xp increasing
Interp1(x, xp, fp) ==
  IF x <= xp[1] THEN fp[1]
  ELSE IF x >= xp[Len(xp)] THEN fp[Len(fp)]
  ELSE LET i == CHOOSE k \in 1..(Len(xp) - 1) : xp[k] <= x /\ x < xp[k + 1]
       IN AddV(fp[i], MulV(SubV(fp[i + 1], fp[i]), Rat(x - xp[i], xp[i + 1] - xp[i])))

Interp(t_new, t_old, arr) ==
  IF Len(arr.data) # Len(t_old) THEN [err |-> "ValueError", arr |-> arr]
  ELSE [err |-> "",
        arr |-> [dtype |-> "float",
                 data |-> [j \in DOMAIN t_new |-> Interp1(t_new[j], t_old, arr.data)]]]

\* one attribute of one record: rebinned when is_boolean, else interpolated
ResampleAttr(arr, t_old, t_new) ==
  IF IsBoolean(arr)
  THEN [method |-> "rebin"] @@ Rebin(arr, t_old, t_new)
  ELSE [method |-> "interp"] @@ Interp(t_new, t_old, arr)

\* the loop over attribute_names for one record; stops at the first exception
RECURSIVE ResampleNames(_, _, _, _, _)
ResampleNames(names, attrs, methods, t_old, t_new) ==
  IF names = <<>> THEN [err |-> "", attrs |-> attrs, methods |-> methods]
  ELSE LET r == ResampleAttr(attrs[Head(names)], t_old, t_new)
           m == [methods EXCEPT ![Head(names)] = r.method]
       IN IF r.err # "" THEN [err |-> r.err, attrs |-> attrs, methods |-> m]
          ELSE ResampleNames(Tail(names), [attrs EXCEPT ![Head(names)] = r.arr], m,
                             t_old, t_new)

NoMethods(tbl) == [n \in Range(tbl.attribute_names) |-> "none"]

\* _resample_data_attributes: the loop over the records, from record k on
RECURSIVE ResampleFrom(_, _, _, _)
ResampleFrom(k, tbl, recs, log) ==
  IF k > Len(recs) THEN [err |-> "", data_attributes |-> recs, log |-> log]
  ELSE IF recs[k].old_sample_rate = tbl.sample_rate
  THEN ResampleFrom(k + 1, tbl, recs, log)
  ELSE LET t_old == TargetForceProfile(CondDur(tbl, recs[k].condition_id),
                                       recs[k].old_sample_rate)
           t_new == ConditionTime(tbl, recs[k].condition_id)
           r == ResampleNames(tbl.attribute_names, recs[k].attrs, log[k], t_old, t_new)
           recs2 == [recs EXCEPT ![k].attrs = r.attrs]
           log2 == [log EXCEPT ![k] = r.methods]
       IN IF r.err # "" THEN [err |-> r.err, data_attributes |-> recs2, log |-> log2]
          ELSE ResampleFrom(k + 1, tbl, recs2, log2)

ResampleDataAttributes(tbl) ==
  ResampleFrom(1, tbl, tbl.data_attributes,
               [k \in DOMAIN tbl.data_attributes |-> NoMethods(tbl)])

\* _get_condition_time_multi_index: every condition's samples, tagged, in
\* the order of condition_attributes
ConditionTimesIndex(tbl) ==
  Concat([c \in DOMAIN tbl.condition_attributes |->
            LET cid == tbl.condition_attributes[c].condition_id
                t == ConditionTime(tbl, cid)
            IN [j \in DOMAIN t |-> <<cid, t[j]>>]])

\* array_data[(member, condition)] after the update from the records: the
\* attribute of the last record with that key, or None
HasRecord(recs, m, cid) ==
  \E k \in DOMAIN recs : recs[k].member = m /\ recs[k].condition_id = cid

ArrayData(recs, m, cid, name) ==
  IF HasRecord(recs, m, cid)
  THEN LET k == CHOOSE i \in DOMAIN recs :
                  /\ recs[i].member = m /\ recs[i].condition_id = cid
                  /\ \A j \in DOMAIN recs :
                       (recs[j].member = m /\ recs[j].condition_id = cid) => j <= i
       IN recs[k].attrs[name].data
  ELSE <<None>>

\* np.hstack over the conditions of one member (None becomes one element)
MemberRow(tbl, recs, m, name) ==
  Concat([c \in DOMAIN tbl.condition_attributes |->
            ArrayData(recs, m, tbl.condition_attributes[c].condition_id, name)])

\* the keys of array_data: itertools.product(population_keys, condition_attributes)
ArrayKeys(tbl) ==
  {<<tbl.population_keys[m], tbl.condition_attributes[c].condition_id>> :
     m \in DOMAIN tbl.population_keys, c \in DOMAIN tbl.condition_attributes}

\* np.array(list of arrays) is 2-D when every entry is an array of one
\* common length, and then reshape(members, conditions) fails unless that
\* length is 1; a ragged list (or one holding None) gives a 1-D object array
ReshapeFails(tbl, recs, name) ==
  LET first == <<tbl.population_keys[1], tbl.condition_attributes[1].condition_id>>
      len == Len(ArrayData(recs, first[1], first[2], name))
  IN /\ \A key \in ArrayKeys(tbl) : HasRecord(recs, key[1], key[2])
     /\ \A key \in ArrayKeys(tbl) : Len(ArrayData(recs, key[1], key[2], name)) = len
     /\ len # 1

AssembledDtype(tbl, recs, rows, name) ==
  IF \E m \in DOMAIN rows : \E j \in DOMAIN rows[m] : IsNone(rows[m][j]) THEN "object"
  ELSE IF \A k \in DOMAIN recs : recs[k].attrs[name].dtype = "bool" THEN "bool"
  ELSE "float"

\* one attribute's 2-D array, or the ValueError of reshape, vstack or xr.Dataset
DataArray(tbl, recs, name) ==
  LET rows == [m \in DOMAIN tbl.population_keys |->
                 MemberRow(tbl, recs, tbl.population_keys[m], name)]
  IN IF ReshapeFails(tbl, recs, name) THEN [err |-> "ValueError", at |-> "reshape"]
     ELSE IF \E m \in DOMAIN rows : Len(rows[m]) # Len(rows[1])
     THEN [err |-> "ValueError", at |-> "vstack"]
     ELSE IF Len(rows[1]) # Len(ConditionTimesIndex(tbl))
     THEN [err |-> "ValueError", at |-> "Dataset"]
     ELSE [err |-> "", at |-> "",
           arr |-> [dtype |-> AssembledDtype(tbl, recs, rows, name), data |-> rows]]

\* _get_data_set: the arrays of every attribute, or the first failure
GetDataSet(tbl, recs) ==
  LET names == tbl.attribute_names
      arrays == [n \in Range(names) |-> DataArray(tbl, recs, n)]
  IN IF \E i \in DOMAIN names : arrays[names[i]].err # ""
     THEN LET i == CHOOSE k \in DOMAIN names :
                     /\ arrays[names[k]].err # ""
                     /\ \A j \in 1..(k - 1) : arrays[names[j]].err = ""
          IN [err |-> "ValueError", at |-> arrays[names[i]].at, arrays |-> <<>>]
     ELSE [err |-> "", at |-> "", arrays |-> [n \in Range(names) |-> arrays[n].arr]]

(***************************************************************************)
(* TrialAveragedPopulationState: the data set and its public methods.      *)
(* A data set is a coordinate and, per variable, the buffer that holds its *)
(* array; in-place operators write the buffer, so two data sets that share *)
(* a buffer see each other's changes.                                      *)
(***************************************************************************)
MaxCalls == 2      \* public calls made on one instance
MaxDur == 2        \* longest condition, in seconds

NoArg == "<None>"             \* reference_var=None
OnlyNone == <<"<None>">>      \* only_vars=None

NoArrays == [raw |-> <<>>, work |-> <<>>]
NoDataSet == [coord |-> <<>>, vars |-> <<>>]
NoCall == [op |-> "none", only_vars |-> OnlyNone, reference_var |-> NoArg,
           soft_factor |-> 0, ids |-> <<>>, data_vars |-> <<>>,
           err |-> "", msg |-> <<>>]
NoContent == [coord |-> <<>>, values |-> <<>>]

\* the coordinate and the arrays a data set shows
Content(h, ds) ==
  [coord |-> ds.coord, values |-> [n \in DOMAIN ds.vars |-> h[ds.vars[n]][n]]]

\* Dataset.copy(deep=True): fresh buffers holding the same values
ShallowCopy(h, ds) == [heap |-> h, data_set |-> ds]
DeepCopy(h, ds) ==
  [heap |-> [h EXCEPT !.work = [n \in DOMAIN ds.vars |-> h[ds.vars[n]][n]]],
   data_set |-> [coord |-> ds.coord, vars |-> [n \in DOMAIN ds.vars |-> "work"]]]

\* list(self.data_set.data_vars)
DataVars(ds, names) == SelectSeq(names, LAMBDA n : n \in DOMAIN ds.vars)

\* set(only_vars) - set(data_vars)
Unrecognized(ds, only_vars) == Range(only_vars) \ DOMAIN ds.vars

\* any(unrecognized_variables): a name is truthy unless it is the empty string
AnyTruthy(S) == \E u \in S : u # ""

\* 'Attributes ' + ' '.join(['{}']*len(unrecognized_variables)) + ' not found in data set'
UnrecognizedMessage(S) ==
  <<"Attributes">> \o [i \in 1..Cardinality(S) |-> "{}"] \o <<"not found in data set">>

\* 'Reference variable {} not found in data set'.format(reference_var)
ReferenceMessage(reference_var) ==
  <<"Reference variable", reference_var, "not found in data set">>

\* the orders list(set(data_vars) & set(only_vars)) may take
RECURSIVE Perms(_)
Perms(S) ==
  IF S = {} THEN {<<>>}
  ELSE UNION {{<<x>> \o p : p \in Perms(S \ {x})} : x \in S}

DataVarOrders(ds, names, only_vars) ==
  IF only_vars = OnlyNone THEN {DataVars(ds, names)}
  ELSE Perms(DOMAIN ds.vars \cap Range(only_vars))

ArrayOf(h, ds, var) == h[ds.vars[var]][var]

\* arr.mean(axis=1, keepdims=True) / arr.ptp(axis=1, keepdims=True)
RowMeans(arr) == [m \in DOMAIN arr.data |-> MeanV(arr.data[m])]
RowMaxes(arr) == [m \in DOMAIN arr.data |-> MaxV(arr.data[m])]
RowRanges(arr) == [m \in DOMAIN arr.data |-> PtpV(arr.data[m])]

\* the loop  self.data_set[var] -= data_means[var]: in place, one variable
\* after the other; a boolean array cannot take the float result
RECURSIVE CenterLoop(_, _, _, _)
CenterLoop(h, ds, data_vars, data_means) ==
  IF data_vars = <<>> THEN [heap |-> h, err |-> "", msg |-> <<>>]
  ELSE LET var == Head(data_vars)
           arr == ArrayOf(h, ds, var)
           new == [arr EXCEPT !.data =
                     [m \in DOMAIN arr.data |->
                        [j \in DOMAIN arr.data[m] |->
                           SubV(arr.data[m][j], data_means[var][m])]]]
       IN IF arr.dtype = "bool" THEN [heap |-> h, err |-> "UFuncTypeError", msg |-> <<>>]
          ELSE CenterLoop([h EXCEPT ![ds.vars[var]][var] = new], ds,
                          Tail(data_vars), data_means)

MeanCenter(h, ds, only_vars, reference_var, data_vars) ==
  IF only_vars # OnlyNone /\ AnyTruthy(Unrecognized(ds, only_vars))
  THEN [heap |-> h, err |-> "AssertionError",
        msg |-> UnrecognizedMessage(Unrecognized(ds, only_vars))]
  ELSE IF \E i \in DOMAIN data_vars : ArrayOf(h, ds, data_vars[i]).dtype = "object"
  THEN [heap |-> h, err |-> "TypeError", msg |-> <<>>]
  ELSE IF reference_var # NoArg /\ reference_var \notin Range(data_vars)
  THEN [heap |-> h, err |-> "AssertionError", msg |-> ReferenceMessage(reference_var)]
  ELSE LET own == [v \in Range(data_vars) |-> RowMeans(ArrayOf(h, ds, v))]
           data_means == IF reference_var = NoArg THEN own
                         ELSE [v \in Range(data_vars) |-> own[reference_var]]
       IN CenterLoop(h, ds, data_vars, data_means)

\* the loop  self.data_set[var] /= (soft_factor + data_ranges[var])
RECURSIVE DivideLoop(_, _, _, _, _)
DivideLoop(h, ds, data_vars, data_ranges, soft_factor) ==
  IF data_vars = <<>> THEN [heap |-> h, err |-> "", msg |-> <<>>]
  ELSE LET var == Head(data_vars)
           arr == ArrayOf(h, ds, var)
           new == [arr EXCEPT !.data =
                     [m \in DOMAIN arr.data |->
                        [j \in DOMAIN arr.data[m] |->
                           DivV(arr.data[m][j],
                                AddV(Int2Val(soft_factor), data_ranges[var][m]))]]]
       IN DivideLoop([h EXCEPT ![ds.vars[var]][var] = new], ds,
                     Tail(data_vars), data_ranges, soft_factor)

\* ptp reduces a zero-size axis (ValueError), subtracts booleans or compares
\* None (TypeError)
Normalize(h, ds, only_vars, reference_var, soft_factor, data_vars) ==
  IF only_vars # OnlyNone /\ AnyTruthy(Unrecognized(ds, only_vars))
  THEN [heap |-> h, err |-> "AssertionError",
        msg |-> UnrecognizedMessage(Unrecognized(ds, only_vars))]
  ELSE IF data_vars # <<>> /\ ds.coord = <<>>
  THEN [heap |-> h, err |-> "ValueError", msg |-> <<>>]
  ELSE IF \E i \in DOMAIN data_vars : ArrayOf(h, ds, data_vars[i]).dtype # "float"
  THEN [heap |-> h, err |-> "TypeError", msg |-> <<>>]
  ELSE IF reference_var # NoArg /\ reference_var \notin Range(data_vars)
  THEN [heap |-> h, err |-> "AssertionError", msg |-> ReferenceMessage(reference_var)]
  ELSE LET own == [v \in Range(data_vars) |-> RowRanges(ArrayOf(h, ds, v))]
           data_ranges == IF reference_var = NoArg THEN own
                          ELSE [v \in Range(data_vars) |-> own[reference_var]]
       IN DivideLoop(h, ds, data_vars, data_ranges, soft_factor)

\* np.vstack([ct_indexes[ct_indexes[:,0]==cid,:] for cid in sorted_condition_ids])
SortedCtIndexesById(coord, ids) ==
  Concat([i \in DOMAIN SortedSeq(Range(ids)) |->
            SelectSeq(coord, LAMBDA ct : ct[1] = SortedSeq(Range(ids))[i])])
SortedCtIndexes(coord, ids) ==
  Concat([i \in DOMAIN ids |-> SelectSeq(coord, LAMBDA ct : ct[1] = ids[i])])

\* the position of a label in an index without duplicates
Locate(coord, ct) == CHOOSE k \in DOMAIN coord : coord[k] = ct

\* Dataset.reindex(condition_time=new_ct_indexes): new arrays, every column
\* looked up by its label
Reindex(h, ds, new_coord) ==
  [heap |-> [h EXCEPT !.work =
               [n \in DOMAIN ds.vars |->
                  LET arr == h[ds.vars[n]][n]
                  IN [arr EXCEPT !.data =
                        [m \in DOMAIN arr.data |->
                           [j \in DOMAIN new_coord |->
                              arr.data[m][Locate(ds.coord, new_coord[j])]]]]]],
   data_set |-> [coord |-> new_coord, vars |-> [n \in DOMAIN ds.vars |-> "work"]]]

\* np.vstack of an empty list raises ValueError: an empty index (line 163)
\* or an empty list of ids (line 164)
ReorderConditions(h, ds, sorted_condition_ids) ==
  IF ds.coord = <<>> \/ sorted_condition_ids = <<>>
  THEN [heap |-> h, data_set |-> ds, err |-> "ValueError"]
  ELSE Reindex(h, ds, SortedCtIndexes(ds.coord, sorted_condition_ids))
         @@ [err |-> ""]

(***************************************************************************)
(* The tables an instance is built from.                                   *)
(***************************************************************************)
Members == <<1, 2>>
ConditionIds == <<10, 20>>
RateProfiles == {"zero", "flat", "ramp"}
RasterProfiles == {"none", "odd"}

\* a firing rate (float64): spikeless, constant, or rising
RateData(profile, m, len) ==
  [i \in 1..len |->
     IF profile = "zero" THEN Zero
     ELSE IF profile = "flat" THEN Int2Val(3)
     ELSE Int2Val(2 * i + m)]

\* a raster (bool)
RasterData(profile, len) ==
  [i \in 1..len |-> IF profile = "odd" /\ i % 2 = 1 THEN One ELSE Zero]

AttrData(name, m, len, rp, bp) ==
  IF name = "rate" THEN [dtype |-> "float", data |-> RateData(rp[m], m, len)]
  ELSE [dtype |-> "bool", data |-> RasterData(bp[m], len)]

\* the table with the given conditions, rates and records; missing is a set
\* of (member, condition) keys without a record
MakeTable(durs, fs, old, names, rp, bp, missing) ==
  LET keys == SelectSeq(
                [k \in 1..(Len(Members) * Len(ConditionIds)) |->
                   <<Members[((k - 1) \div Len(ConditionIds)) + 1],
                     ((k - 1) % Len(ConditionIds)) + 1>>],
                LAMBDA key : <<key[1], ConditionIds[key[2]]>> \notin missing)
  IN [population_keys |-> Members,
      condition_attributes |->
        [c \in DOMAIN ConditionIds |-> [condition_id |-> ConditionIds[c], duration |-> durs[c]]],
      sample_rate |-> fs,
      attribute_names |-> names,
      data_attributes |->
        [k \in DOMAIN keys |->
           [member |-> keys[k][1],
            condition_id |-> ConditionIds[keys[k][2]],
            old_sample_rate |-> old,
            attrs |-> [n \in Range(names) |->
                         AttrData(n, keys[k][1], durs[keys[k][2]] * old + 1, rp, bp)]]]]

AllTables ==
  {MakeTable(durs, fs, old, names, rp, bp, missing) :
     durs \in [DOMAIN ConditionIds -> 1..MaxDur],
     fs \in SampleRates, old \in SampleRates,
     names \in {<<"rate">>, <<"rate", "raster">>},
     rp \in [Range(Members) -> RateProfiles],
     bp \in [Range(Members) -> RasterProfiles],
     missing \in {{}, {<<2, 20>>}}}

\* the tables the public methods are exercised on
OpsTables ==
  {MakeTable(durs, fs, 1, names, rp, bp, {}) :
     durs \in {[c \in DOMAIN ConditionIds |-> Min2(c, MaxDur)]},
     fs \in SampleRates,
     names \in {<<"rate">>, <<"rate", "raster">>},
     rp \in {[m \in Range(Members) |-> IF m = 1 THEN "ramp" ELSE p] : p \in {"flat", "zero", "ramp"}},
     bp \in {[m \in Range(Members) |-> IF m = 1 THEN "odd" ELSE "none"]}}

PopFields(pc) ==
  /\ data_attributes = table.data_attributes
  /\ resample_log = [k \in DOMAIN table.data_attributes |-> NoMethods(table)]
  /\ heap = NoArrays
  /\ raw_data_set = NoDataSet
  /\ data_set = NoDataSet
  /\ pop_pc = pc
  /\ last_call = NoCall
  /\ before = NoContent
  /\ calls = 0

PopInit == table \in OpsTables /\ PopFields("new")
ConstructInit == table \in AllTables /\ PopFields("new")

PopIdle ==
  /\ table = MakeTable([c \in DOMAIN ConditionIds |-> 1], 1, 1, <<"rate">>,
                       [m \in Range(Members) |-> "zero"],
                       [m \in Range(Members) |-> "none"], {})
  /\ PopFields("idle")

(***************************************************************************)
(* Actions on an instance                                                  *)
(***************************************************************************)
\* __init__ / _get_population_state, up to the reset_data_set of line 117
Construct ==
  /\ pop_pc = "new"
  /\ LET r == ResampleDataAttributes(table)
         g == GetDataSet(table, r.data_attributes)
         raw == [coord |-> ConditionTimesIndex(table),
                 vars |-> [n \in Range(table.attribute_names) |-> "raw"]]
         c == DeepCopy([raw |-> g.arrays, work |-> <<>>], raw)
     IN /\ data_attributes' = r.data_attributes
        /\ resample_log' = r.log
        /\ IF r.err # ""
           THEN /\ pop_pc' = "failed"
                /\ last_call' = [NoCall EXCEPT !.op = "_resample_data_attributes",
                                               !.err = r.err]
                /\ UNCHANGED <<heap, raw_data_set, data_set>>
           ELSE IF g.err # ""
           THEN /\ pop_pc' = "failed"
                /\ last_call' = [NoCall EXCEPT !.op = "_get_data_set", !.err = g.err,
                                               !.msg = <<g.at>>]
                /\ UNCHANGED <<heap, raw_data_set, data_set>>
           ELSE /\ pop_pc' = "ready"
                /\ last_call' = [NoCall EXCEPT !.op = "__init__"]
                /\ heap' = c.heap
                /\ raw_data_set' = raw
                /\ data_set' = c.data_set
  /\ UNCHANGED <<table, before, calls>>
  /\ UNCHANGED <<rasterVars, rateVars, rebinVars>>

OnlyVarsArgs == {OnlyNone, <<"rate">>, <<"rate", "raster">>, <<"bogus">>, <<"">>}
ReferenceArgs == {NoArg, "rate"}
SoftFactors == {0, 1}
IdLists == UNION {Perms(S) : S \in SUBSET Range(ConditionIds)}

CallStart ==
  /\ pop_pc = "ready"
  /\ calls < MaxCalls
  /\ calls' = calls + 1
  /\ before' = Content(heap, data_set)
  /\ UNCHANGED <<table, data_attributes, resample_log, raw_data_set, pop_pc>>
  /\ UNCHANGED <<rasterVars, rateVars, rebinVars>>

mean_center ==
  /\ CallStart
  /\ \E only_vars \in OnlyVarsArgs, reference_var \in ReferenceArgs :
       \E data_vars \in DataVarOrders(data_set, table.attribute_names, only_vars) :
         \E r \in {MeanCenter(heap, data_set, only_vars, reference_var, data_vars)} :
            /\ heap' = r.heap
            /\ last_call' = [NoCall EXCEPT !.op = "mean_center", !.only_vars = only_vars,
                                           !.reference_var = reference_var,
                                           !.data_vars = data_vars,
                                           !.err = r.err, !.msg = r.msg]
  /\ UNCHANGED data_set

normalize ==
  /\ CallStart
  /\ \E only_vars \in OnlyVarsArgs, reference_var \in ReferenceArgs,
        soft_factor \in SoftFactors :
       \E data_vars \in DataVarOrders(data_set, table.attribute_names, only_vars) :
         \E r \in {Normalize(heap, data_set, only_vars, reference_var, soft_factor,
                              data_vars)} :
            /\ heap' = r.heap
            /\ last_call' = [NoCall EXCEPT !.op = "normalize", !.only_vars = only_vars,
                                           !.reference_var = reference_var,
                                           !.soft_factor = soft_factor,
                                           !.data_vars = data_vars,
                                           !.err = r.err, !.msg = r.msg]
  /\ UNCHANGED data_set

reorder_conditions ==
  /\ CallStart
  /\ \E sorted_condition_ids \in IdLists :
       \E r \in {ReorderConditions(heap, data_set, sorted_condition_ids)} :
          /\ heap' = r.heap
          /\ data_set' = r.data_set
          /\ last_call' = [NoCall EXCEPT !.op = "reorder_conditions",
                                         !.ids = sorted_condition_ids, !.err = r.err]

reset_data_set ==
  /\ CallStart
  /\ \E c \in {DeepCopy(heap, raw_data_set)} :
       /\ heap' = c.heap
       /\ data_set' = c.data_set
  /\ last_call' = [NoCall EXCEPT !.op = "reset_data_set"]

(***************************************************************************)
(* A direct call of _rebin                                                 *)
(***************************************************************************)
MaxTime == 4       \* sample times are 0..MaxTime ticks
MaxLen == 3        \* longest time vector of a direct call

TimeVectors ==
  {SortedSeq(S) : S \in {T \in SUBSET (0..MaxTime) : Cardinality(T) \in 1..MaxLen}}

BoolArrays(len) ==
  {[dtype |-> "bool", data |-> d] : d \in [1..len -> {Zero, One}]}

RebinInit ==
  /\ rebin_t_old \in TimeVectors
  /\ rebin_t_new \in TimeVectors
  /\ rebin_raster \in BoolArrays(Len(rebin_t_old))
  /\ rebin_out = [err |-> "", arr |-> [dtype |-> "bool", data |-> <<>>]]
  /\ rebin_pc = "call"

RebinIdle ==
  /\ rebin_t_old = <<0>>
  /\ rebin_t_new = <<0>>
  /\ rebin_raster = [dtype |-> "bool", data |-> <<Zero>>]
  /\ rebin_out = [err |-> "", arr |-> [dtype |-> "bool", data |-> <<>>]]
  /\ rebin_pc = "idle"

RebinCall ==
  /\ rebin_pc = "call"
  /\ rebin_out' = Rebin(rebin_raster, rebin_t_old, rebin_t_new)
  /\ rebin_pc' = "returned"
  /\ UNCHANGED <<rebin_raster, rebin_t_old, rebin_t_new>>

(***************************************************************************)
(* Specifications                                                          *)
(***************************************************************************)
RasterNext == NeuronSpikeRasterMake /\ UNCHANGED <<rateVars, rebinVars, popVars>>
SpecRasterInit == RasterInit /\ RateIdle /\ RebinIdle /\ PopIdle
SpecRaster == SpecRasterInit /\ [][RasterNext]_vars

RateNext ==
  \/ NeuronRateMakeZero /\ UNCHANGED <<rasterVars, rebinVars, popVars>>
  \/ NeuronRateMakeIndexError /\ UNCHANGED <<rasterVars, rebinVars, popVars>>
  \/ NeuronRateMakeNoFilter /\ UNCHANGED <<rasterVars, rebinVars, popVars>>
  \/ NeuronRateMakeFiltered /\ UNCHANGED <<rasterVars, rebinVars, popVars>>
SpecRateInit == RateInit /\ RasterIdle /\ RebinIdle /\ PopIdle
SpecRate == SpecRateInit /\ [][RateNext]_vars

RebinNext == RebinCall /\ UNCHANGED <<rasterVars, rateVars, popVars>>
SpecRebinInit == RebinInit /\ RasterIdle /\ RateIdle /\ PopIdle
SpecRebin == SpecRebinInit /\ [][RebinNext]_vars

ConstructNext == Construct
SpecConstructInit == ConstructInit /\ RasterIdle /\ RateIdle /\ RebinIdle
SpecConstruct == SpecConstructInit /\ [][ConstructNext]_vars

Next ==
  \/ Construct
  \/ mean_center
  \/ normalize
  \/ reorder_conditions
  \/ reset_data_set
Init == PopInit /\ RasterIdle /\ RateIdle /\ RebinIdle
Spec == Init /\ [][Next]_vars

(***************************************************************************)
(* Properties                                                              *)
(***************************************************************************)
True1(raster) == {i \in DOMAIN raster : raster[i]}

\* the spike indices inside the bins of the alignment:
\* alignment[0] - 0.5 <= s < alignment[L-1] + 0.5
SpikesInRange ==
  {k \in DOMAIN neuron_spike_indices :
     /\ 2 * neuron_spike_indices[k] >= 2 * ephys_alignment[1] - 1
     /\ 2 * neuron_spike_indices[k] < 2 * ephys_alignment[Len(ephys_alignment)] + 1}

\* spike k lies in bin i of the alignment (i is 1-based)
SpikeInBin(k, i) ==
  /\ 2 * neuron_spike_indices[k] >= 2 * ephys_alignment[i] - 1
  /\ 2 * neuron_spike_indices[k] <
       (IF i < Len(ephys_alignment) THEN 2 * ephys_alignment[i + 1] - 1
        ELSE 2 * ephys_alignment[i] + 1)

\* C6: NeuronSpikeRaster.make stores a raster as long as the alignment, with
\* at most as many true entries as there are spike indices inside the bins
\* of the alignment, and every true entry has a spike inside its own bin
\* (so spikes outside the range set no entry).
C6_RasterLengthAndCount ==
  raster_pc = "inserted" =>
    /\ Len(neuron_spike_raster) = Len(ephys_alignment)
    /\ Cardinality(True1(neuron_spike_raster)) <= Cardinality(SpikesInRange)
    /\ \A i \in True1(neuron_spike_raster) : \E k \in SpikesInRange : SpikeInBin(k, i)

\* a raster made from spikes below, inside (two in one bin) and above the range
C6_Witness ==
  /\ raster_pc = "inserted"
  /\ Len(ephys_alignment) >= 2
  /\ \E k \in DOMAIN neuron_spike_indices : neuron_spike_indices[k] < ephys_alignment[1]
  /\ True1(neuron_spike_raster) # {}
  /\ Cardinality(True1(neuron_spike_raster)) < Cardinality(SpikesInRange)

\* C7: for a stored raster without a true entry NeuronRate.make inserts a
\* rate of zeros as long as the behavioral time vector, whatever the filter
\* parameters and the sample rates, and never looks up or applies a filter.
C7_ZeroRate ==
  (rate_pc # "key" /\ ~AnySpike(spike_raster)) =>
    /\ rate_pc = "inserted"
    /\ neuron_rate.stored
    /\ Len(neuron_rate.values) = Len(t_beh)
    /\ \A i \in DOMAIN neuron_rate.values : neuron_rate.values[i] = 0
    /\ neuron_rate.filter = "none"
    /\ filter_lookups = 0

\* a spikeless raster of another length than t_beh, with no filter to find
C7_Witness ==
  /\ rate_pc = "inserted"
  /\ ~AnySpike(spike_raster)
  /\ Len(spike_raster) # Len(t_beh)
  /\ Len(spike_raster) # 1 + EphysSteps(t_beh, fs_ephys, fs_beh)
  /\ filter_matches = {}
  /\ Len(t_beh) > 1

\* the times of the true samples of the stored raster, in order
SpikeTimes == MaskSelect(TEphys(t_beh, fs_ephys, fs_beh), spike_raster)

\* spike k lies exactly on the edge between bins p-1 and p (bins counted
\* from 0, both inside the trial)
OnBoundary(k, p) ==
  /\ p \in 1..(Len(t_beh) - 1)
  /\ SpikeTimes[k] = TimeBinEdges(t_beh, fs_ephys, fs_beh)[p + 1]

\* C8 as stated: a spike exactly on the boundary between bin i and bin i+1
\* is assigned to the lower-indexed bin i.
C8_BoundaryLower ==
  rate_pc = "inserted" /\ AnySpike(spike_raster) =>
    \A k \in DOMAIN rate_bins : \A p \in 1..(Len(t_beh) - 1) :
      OnBoundary(k, p) => rate_bins[k] = p - 1

\* C8 as amended: a spike exactly on the boundary between bin i and bin i+1
\* is assigned to the higher-indexed bin i+1 (bins are closed on the left).
C8_BoundaryHigher ==
  rate_pc = "inserted" /\ AnySpike(spike_raster) =>
    /\ Len(rate_bins) = Len(SpikeTimes)
    /\ \A k \in DOMAIN rate_bins : \A p \in 1..(Len(t_beh) - 1) :
         OnBoundary(k, p) => rate_bins[k] = p /\ neuron_rate.signal[p + 1]

\* a rate made from a raster with a spike exactly on an inner edge
C8_Witness ==
  /\ rate_pc = "inserted"
  /\ AnySpike(spike_raster)
  /\ \E k \in DOMAIN rate_bins : \E p \in 1..(Len(t_beh) - 1) : OnBoundary(k, p)

\* C2: _rebin(raster, t, t, fs) returns the raster it was given.
C2_RebinIdempotent ==
  (rebin_pc = "returned" /\ rebin_t_old = rebin_t_new) =>
    /\ rebin_out.err = ""
    /\ rebin_out.arr.data = rebin_raster.data

\* what construction leaves in both data sets, from the table alone
Built ==
  [coord |-> ConditionTimesIndex(table),
   values |-> GetDataSet(table, ResampleDataAttributes(table).data_attributes).arrays]

\* C1: no call changes the baseline, and reset_data_set leaves the working
\* data set with the values and the coordinate construction gave it.
C1_ResetRestores ==
  pop_pc = "ready" =>
    /\ Content(heap, raw_data_set) = Built
    /\ last_call.op = "reset_data_set" => Content(heap, data_set) = Built

\* a reset that undid the mutation of the call before it
C1_Witness ==
  /\ pop_pc = "ready"
  /\ last_call.op = "reset_data_set"
  /\ calls >= 2
  /\ before # Built
  /\ Content(heap, data_set) = Built

\* the (non-empty) names of only_vars that are no data variable
UnknownNames == (Range(last_call.only_vars) \ DOMAIN data_set.vars) \ {""}

\* C3: mean_center or normalize with an unknown name in only_vars fails,
\* the message names that attribute, and the data set is left unchanged.
C3_UnknownAttributeNamed ==
  (/\ pop_pc = "ready"
   /\ last_call.op \in {"mean_center", "normalize"}
   /\ last_call.only_vars # OnlyNone
   /\ UnknownNames # {}) =>
    /\ last_call.err # ""
    /\ \A u \in UnknownNames : u \in Range(last_call.msg)
    /\ Content(heap, data_set) = before

\* the positions of the samples of condition cid, in coordinate order
SamplesOf(coord, cid) == SelectSeq(coord, LAMBDA ct : ct[1] = cid)
PresentIn(coord, ids) == \A i \in DOMAIN ids : SamplesOf(coord, ids[i]) # <<>>
Position(ids, cid) == CHOOSE i \in DOMAIN ids : ids[i] = cid

\* the outcome C4 describes, of the latest call
ReorderedAsListed ==
  LET now == Content(heap, data_set)
  IN /\ last_call.err = ""
     \* exactly the samples of the listed conditions, each once
     /\ Range(now.coord) = {ct \in Range(before.coord) : ct[1] \in Range(last_call.ids)}
     /\ Cardinality(Range(now.coord)) = Len(now.coord)
     \* conditions in the order of ids, samples in their former order
     /\ \A i, j \in DOMAIN now.coord :
          i < j =>
            \/ Position(last_call.ids, now.coord[i][1]) < Position(last_call.ids, now.coord[j][1])
            \/ /\ now.coord[i][1] = now.coord[j][1]
               /\ Locate(before.coord, now.coord[i]) < Locate(before.coord, now.coord[j])
     \* every member's value at every retained sample is unchanged
     /\ DOMAIN now.values = DOMAIN before.values
     /\ \A n \in DOMAIN now.values :
          /\ now.values[n].dtype = before.values[n].dtype
          /\ DOMAIN now.values[n].data = DOMAIN before.values[n].data
          /\ \A m \in DOMAIN now.values[n].data :
               /\ Len(now.values[n].data[m]) = Len(now.coord)
               /\ \A j \in DOMAIN now.coord :
                    now.values[n].data[m][j] =
                      before.values[n].data[m][Locate(before.coord, now.coord[j])]

\* C4 as stated: for any list of distinct condition ids present in the
\* working data set, reorder_conditions keeps exactly the listed conditions,
\* in the listed order, each in its former time order, with unchanged values.
C4_ReorderAnyList ==
  (/\ pop_pc = "ready"
   /\ last_call.op = "reorder_conditions"
   /\ PresentIn(before.coord, last_call.ids)) => ReorderedAsListed

\* C4 as amended: the same for a list that is not empty.
C4_ReorderNonEmptyList ==
  (/\ pop_pc = "ready"
   /\ last_call.op = "reorder_conditions"
   /\ last_call.ids # <<>>
   /\ PresentIn(before.coord, last_call.ids)) => ReorderedAsListed

\* a reorder that swapped two conditions, and one that dropped a condition
C4_Witness ==
  /\ pop_pc = "ready"
  /\ last_call.op = "reorder_conditions"
  /\ last_call.err = ""
  /\ Len(last_call.ids) = 2
  /\ PresentIn(before.coord, last_call.ids)
  /\ data_set.coord # before.coord
  /\ Len(data_set.coord) = Len(before.coord)

\* max - min of a row is 1, measured on the row itself
RangeIsOne(row) ==
  \E i, j \in DOMAIN row :
    /\ \A k \in DOMAIN row : row[k] # NaN /\ ~LessV(row[i], row[k]) /\ ~LessV(row[k], row[j])
    /\ SubV(row[i], row[j]) = One

\* max - min of a row is a finite number other than 0
RangeFiniteNonZero(row) ==
  /\ row # <<>>
  /\ \A k \in DOMAIN row : IsFinite(row[k])
  /\ \E i, j \in DOMAIN row : row[i] # row[j]

NormalizedPlain ==
  /\ pop_pc = "ready"
  /\ last_call.op = "normalize"
  /\ last_call.err = ""
  /\ last_call.soft_factor = 0
  /\ last_call.reference_var = NoArg

\* C5 as stated: after normalize with soft_factor=0 and no reference_var the
\* range of every member of every attribute acted on is 1.
C5_RangeOneAlways ==
  NormalizedPlain =>
    \A v \in Range(last_call.data_vars) :
      \A m \in DOMAIN ArrayOf(heap, data_set, v).data :
        RangeIsOne(ArrayOf(heap, data_set, v).data[m])

\* C5 as amended: the range is 1 for every member whose values were finite
\* with a range other than 0 before the call.
C5_RangeOneWhenNonZero ==
  NormalizedPlain =>
    \A v \in Range(last_call.data_vars) :
      \A m \in DOMAIN ArrayOf(heap, data_set, v).data :
        RangeFiniteNonZero(before.values[v].data[m]) =>
          RangeIsOne(ArrayOf(heap, data_set, v).data[m])

\* a normalize that rescaled a member whose range was neither 0 nor 1
C5_Witness ==
  /\ NormalizedPlain
  /\ \E v \in Range(last_call.data_vars) :
       \E m \in DOMAIN before.values[v].data :
         /\ RangeFiniteNonZero(before.values[v].data[m])
         /\ ~RangeIsOne(before.values[v].data[m])
         /\ RangeIsOne(ArrayOf(heap, data_set, v).data[m])

\* the columns of a row that the coordinate labels with condition cid
Block(row, coord, cid) ==
  LET cols == SelectSeq([j \in DOMAIN coord |-> j], LAMBDA j : coord[j][1] = cid)
  IN [i \in DOMAIN cols |-> row[cols[i]]]

\* C9: construction assembles, per attribute, one row per member and one
\* column per sample of the coordinate; the block of condition c in the row
\* of member m is the attribute of the record (m, c), and a no-data
\* placeholder at every sample of the block when there is no such record.
C9_Assembled ==
  (pop_pc # "new" /\ last_call.op # "_resample_data_attributes") =>
    /\ pop_pc = "ready"
    /\ raw_data_set.coord = ConditionTimesIndex(table)
    /\ \A n \in Range(table.attribute_names) :
         LET arr == ArrayOf(heap, raw_data_set, n)
         IN /\ Len(arr.data) = Len(table.population_keys)
            /\ \A m \in DOMAIN arr.data :
                 /\ Len(arr.data[m]) = Len(raw_data_set.coord)
                 /\ \A c \in DOMAIN table.condition_attributes :
                      LET cid == table.condition_attributes[c].condition_id
                          blk == Block(arr.data[m], raw_data_set.coord, cid)
                      IN IF HasRecord(data_attributes, table.population_keys[m], cid)
                         THEN blk = ArrayData(data_attributes, table.population_keys[m], cid, n)
                         ELSE /\ Len(blk) = Len(ConditionTime(table, cid))
                              /\ \A j \in DOMAIN blk : blk[j] \in {None, NaN}

\* C10: of every record whose rate differs from the target rate, a float
\* (continuous) attribute is interpolated, also when all its samples are 0
\* or 1, a boolean attribute is rebinned, and every resampled attribute is
\* as long as the condition's target time vector.
C10_ResampleByKind ==
  pop_pc # "new" =>
    \A k \in DOMAIN table.data_attributes :
      table.data_attributes[k].old_sample_rate # table.sample_rate =>
        \A n \in Range(table.attribute_names) :
          /\ table.data_attributes[k].attrs[n].dtype = "float" => resample_log[k][n] = "interp"
          /\ table.data_attributes[k].attrs[n].dtype = "bool" => resample_log[k][n] = "rebin"
          /\ Len(data_attributes[k].attrs[n].data) =
               Len(ConditionTime(table, table.data_attributes[k].condition_id))

====
